---------------------------- MODULE Spec2Model ----------------------------
(***************************************************************************)
(* The ICL regression transformer of                                       *)
(* optformer/embed_then_regress/icl_transformer.py: the masked forward     *)
(* pass (__call__), the training entry (fit) and the cached inference      *)
(* entry (infer) with its EmbeddingCache.                                  *)
(*                                                                         *)
(* Tensors are finite sequences.  A token sequence has T = 1 token, an     *)
(* embedding row is a tuple of integers (width E = 1, or 2E once metadata  *)
(* is concatenated), the model dimension is D = 1.  The learned layers     *)
(* (Dense, LayerNorm, attention) have fixed small integer weights: every   *)
(* layer is a deterministic function of its input and its parameters, and  *)
(* the model keeps the data flow of the code (what is multiplied by the    *)
(* mask, what each attention row may read, where dropout draws from rng).  *)
(* The std output is kept in the precision of the floating-point type: an  *)
(* integer number of ULP, the spacing of the floats around EPS.  A float   *)
(* may be NaN, which every arithmetic operation propagates (0 * NaN = NaN).*)
(***************************************************************************)
EXTENDS Integers, Sequences, FiniteSets

VARIABLES cfg, heap, held, origin, last, ncalls

vars == <<cfg, heap, held, origin, last, ncalls>>

-----------------------------------------------------------------------------
(* Bounds of the model.                                                    *)

\* L: the padded capacity of one observation sequence.
MaxLen == 2
\* Q: the largest batch of target sequences (one more than fits in L).
MaxQ == 3
\* The number of infer calls of one inference session.
MaxCalls == 2

\* Token ids of the vocabulary.
Tokens == {1, 2}
\* The float that is not a number (a value no arithmetic below produces
\* from numbers).
NaN == -999999

\* The y values of the observations.
YVals == {0, 1, NaN}
\* Dropout keys.
Rngs == {0, 1}
\* dropout: the rate is zero or positive (only the sign is read).
DropoutRates == {0, 1}

Positions == 1..MaxLen
Masks == [Positions -> BOOLEAN]
YSeqs == [Positions -> YVals]
XSeqs == [Positions -> Tokens]
TargSeqs == UNION {[1..q -> Tokens] : q \in 1..MaxQ}

\* Python's None, for an optional tensor: the empty tuple (a tensor that is
\* present has at least one row).
None == <<>>

-----------------------------------------------------------------------------
(* Numeric helpers.                                                        *)

B2I(b) == IF b THEN 1 ELSE 0

IsNaN(v) == v = NaN

\* Float addition and multiplication.
Add(a, b) == IF IsNaN(a) \/ IsNaN(b) THEN NaN ELSE a + b
Mul(a, b) == IF IsNaN(a) \/ IsNaN(b) THEN NaN ELSE a * b

\* nn.relu: jnp.maximum(v, 0).
Relu(v) == IF IsNaN(v) THEN NaN ELSE IF v > 0 THEN v ELSE 0

RECURSIVE Pow2(_)
Pow2(n) == IF n <= 0 THEN 1 ELSE 2 * Pow2(n - 1)

RECURSIVE SumSeq(_)
SumSeq(s) == IF s = <<>> THEN 0 ELSE Add(Head(s), SumSeq(Tail(s)))

\* An array held by value: every element computed once.
Tensor(f) == f \o <<>>

Min(a, b) == IF a < b THEN a ELSE b
Max(a, b) == IF a > b THEN a ELSE b


-----------------------------------------------------------------------------
(* The learned layers.  Dense is functools.partial(nn.Dense, ...): an      *)
(* affine map; the weights below are fixed parameters of the model.        *)

\* The weighted sum of a Dense layer over the features of one row.
RECURSIVE Dot(_)
Dot(row) == IF row = <<>> THEN 0 ELSE Len(row) * row[Len(row)] + Dot(SubSeq(row, 1, Len(row) - 1))

\* self.embedder: one token sequence (T = 1 token) to one embedding row
\* (E = 1).  Deterministic given its weights; no token embeds to zero.
Embedder(tok) == <<2 * tok + 1>>

\* embed: flatten, apply the embedder to every token sequence, restore the
\* leading shape.
embed(tokens) == Tensor([i \in 1..Len(tokens) |-> Embedder(tokens[i])])

\* x_proj, y_proj, xy_proj: Dense, relu, Dense.
x_proj(row) == Relu(Dot(row) - 2) + 1
y_proj(y) == Add(Relu(Mul(2, y)), 1)
xy_proj(xp, yt) == Add(Relu(Add(Add(xp, Mul(2, yt)), -1)), 1)

\* nn.LayerNorm on one token: the magnitude is brought into a fixed range.
LayerNorm(v) == IF IsNaN(v) THEN NaN ELSE Max(-4, Min(4, v))

\* self.ffw of a Block: Dense, relu, Dense.
ffw(v) == Add(Relu(Add(v, -1)), 1)

\* mean_logstd_head: Dense, relu, Dense(2); the two outputs of one token.
mean_logstd_head(v) == <<Add(Mul(2, Relu(v)), -3), Add(26, Mul(-1, Relu(v)))>>

-----------------------------------------------------------------------------
(* Dropout.  A key keeps or drops each position; rng = None makes flax     *)
(* draw the key from the module's own 'dropout' stream (ambient).          *)

Keep(key, i) == (key + i) % 2 = 0

EffectiveRng(rng, ambient) == IF rng = None THEN ambient ELSE rng[1]

\* Dropout that ignores the deterministic flag.
Dropout_IgnoresDeterministic(x, rate, deterministic, key) ==
  IF rate = 0 THEN x
  ELSE Tensor([i \in 1..Len(x) |-> IF Keep(key, i) THEN Mul(2, x[i]) ELSE 0])

\* nn.Dropout: the identity when the rate is zero or in deterministic mode,
\* otherwise kept positions are rescaled and dropped ones are selected to be
\* zero.
Dropout(x, rate, deterministic, key) ==
  IF rate = 0 \/ deterministic THEN x
  ELSE Tensor([i \in 1..Len(x) |-> IF Keep(key, i) THEN Mul(2, x[i]) ELSE 0])

\* nn.SelfAttention, the weight of key j for query i: 1 on the keys the mask
\* permits (on all keys when it permits none: every logit is then the same
\* large negative number), 0 on the others and on those the attention
\* dropout drops.
AttnWeight(mask, i, j, L, rate, deterministic, key) ==
  LET visible == mask[i][j] \/ \A k \in 1..L : ~mask[i][k]
      kept == rate = 0 \/ deterministic \/ Keep(key, j)
  IN  IF visible /\ kept THEN 1 ELSE 0

\* The attention output of query i: the weighted sum of the values of all
\* keys (a weight of 0 multiplies the value, it does not skip it).
SelfAttention(x, mask, rate, deterministic, key) ==
  Tensor([i \in 1..Len(x) |->
    SumSeq(Tensor([j \in 1..Len(x) |->
      Mul(AttnWeight(mask, i, j, Len(x), rate, deterministic, key), x[j])]))])

\* Block.__call__: pre-norm attention, residual, pre-norm feed-forward,
\* residual, dropout when dropout_rate > 0.
Block(x, mask, rate, deterministic, key) ==
  LET norm1 == Tensor([i \in 1..Len(x) |-> LayerNorm(x[i])])
      attn == SelfAttention(norm1, mask, rate, deterministic, key)
      x1 == Tensor([i \in 1..Len(x) |-> Add(x[i], attn[i])])
      x2 == Tensor([i \in 1..Len(x) |-> Add(x1[i], ffw(LayerNorm(x1[i])))])
  IN  IF rate > 0 THEN Dropout(x2, rate, deterministic, key) ELSE x2

-----------------------------------------------------------------------------
(* ICLTransformer.__call__                                                 *)

\* EPS = 1e-7, in ULP (the spacing of the floats around 1e-7).
EPS == 5

\* std_transform_fn (exp, base 2 here), rounded to the precision of the
\* result: 1.0 is 2^3 ULP, and a value below half an ULP is 0.
std_transform_fn(raw) ==
  IF IsNaN(raw) THEN NaN ELSE IF raw + 3 >= 0 THEN Pow2(raw + 3) ELSE 0

\* y = y * mask
MaskY(y, mask) == Tensor([i \in 1..Len(y) |-> Mul(y[i], B2I(mask[i]))])

\* BroadcastMask expanded on the wrong axis: row i is mask[i] throughout.
BroadcastMask_Transposed(mask, L) == Tensor([i \in 1..L |-> Tensor([j \in 1..L |-> mask[i]])])

\* mask = jnp.repeat(jnp.expand_dims(mask, axis=1), L, axis=1): [L, L], row
\* i (query), column j (key).
BroadcastMask(mask, L) == Tensor([i \in 1..L |-> Tensor([j \in 1..L |-> mask[j]])])

\* for layer in self.encoder_layers: out = layer(out, mask, deterministic,
\* rng).  Returns the output and the mask each layer was handed.
RECURSIVE EncoderLayers(_, _, _, _, _, _)
EncoderLayers(out, mask, n, rate, deterministic, key) ==
  IF n = 0 THEN [out |-> out, masks |-> <<>>]
  ELSE LET rest == EncoderLayers(Block(out, mask, rate, deterministic, key),
                                 mask, n - 1, rate, deterministic, key)
       IN  [out |-> rest.out, masks |-> <<mask>> \o rest.masks]

\* StdOf without the floor.
StdOf_NoFloor(raw) == std_transform_fn(raw)

\* std = self.std_transform_fn(std) + EPS
StdOf(raw) == Add(std_transform_fn(raw), EPS)

Call(c, x_emb, y, mask, deterministic, rng, ambient) ==
  LET L == Len(x_emb)
      xp == Tensor([i \in 1..L |-> x_proj(x_emb[i])])
      ym == MaskY(y, mask)
      yt == Tensor([i \in 1..L |-> y_proj(ym[i])])
      xy == Tensor([i \in 1..L |-> xy_proj(xp[i], yt[i])])
      amask == BroadcastMask(mask, L)
      enc == EncoderLayers(xy, amask, c.num_layers, c.dropout, deterministic,
                           EffectiveRng(rng, ambient))
      head == Tensor([i \in 1..L |-> mean_logstd_head(enc.out[i])])
  IN  [mean |-> Tensor([i \in 1..L |-> head[i][1]]),
       raw_std |-> Tensor([i \in 1..L |-> head[i][2]]),
       std |-> Tensor([i \in 1..L |-> StdOf(head[i][2])]),
       layer_masks |-> enc.masks]


-----------------------------------------------------------------------------
(* EmbeddingCache and ICLTransformer.infer.  Cache values are objects of a *)
(* heap (a sequence; a reference is an index), so that building a new      *)
(* value and changing one in place are different things.                   *)

EmbeddingCache == [x_emb |-> None, metadata_emb |-> None]

\* Replace that changes the object it is given.
Replace_InPlace(h, ref, fld, value) ==
  [heap |-> [h EXCEPT ![ref] = [h[ref] EXCEPT ![fld] = value]], ref |-> ref]

\* Replace that builds EmbeddingCache(field=value), dropping the other field.
Replace_Fresh(h, ref, fld, value) ==
  [heap |-> Append(h, [EmbeddingCache EXCEPT ![fld] = value]), ref |-> Len(h) + 1]

\* dataclasses.replace(cache, field=value): a new object, the old one is
\* left as it was.  Returns the heap and the reference of the new object.
Replace(h, ref, fld, value) ==
  [heap |-> Append(h, [h[ref] EXCEPT ![fld] = value]), ref |-> Len(h) + 1]

\* jnp.zeros_like(x_pad_emb)
ZerosLike(x) == Tensor([i \in 1..Len(x) |-> Tensor([k \in 1..Len(x[i]) |-> 0])])

\* ClampStart without the clamp.
ClampStart_Unclamped(start, L, Q) == start

\* The start index jax.lax.dynamic_update_slice uses: the requested one,
\* clamped so that the whole update lies inside the operand.
ClampStart(start, L, Q) == Max(0, Min(start, L - Q))

\* jax.lax.dynamic_update_slice_in_dim(operand, update, start, axis=0);
\* positions are 1-based here, start is the 0-based offset of the code.
DynamicUpdateSlice(operand, update, start) ==
  LET s == ClampStart(start, Len(operand), Len(update))
  IN  Tensor([p \in 1..Len(operand) |->
                IF s < p /\ p <= s + Len(update) THEN update[p - s] ELSE operand[p]])

\* TargetIndex counting the target positions instead of the context's.
TargetIndex_CountsTargets(mask) == SumSeq(Tensor([i \in 1..Len(mask) |-> 1 - B2I(mask[i])]))

\* target_index = jnp.sum(mask, dtype=jnp.int32)
TargetIndex(mask) == SumSeq(Tensor([i \in 1..Len(mask) |-> B2I(mask[i])]))

\* Combine without the (1 - w_mask) factor on the overlay.
Combine_Adds(x_pad_emb, padded_target_emb, mask) ==
  Tensor([p \in 1..Len(x_pad_emb) |->
     Tensor([k \in 1..Len(x_pad_emb[p]) |->
        x_pad_emb[p][k] * B2I(mask[p]) + padded_target_emb[p][k]])])

\* x_emb = x_pad_emb * w_mask + padded_target_emb * (1 - w_mask)
Combine(x_pad_emb, padded_target_emb, mask) ==
  Tensor([p \in 1..Len(x_pad_emb) |->
     Tensor([k \in 1..Len(x_pad_emb[p]) |->
        x_pad_emb[p][k] * B2I(mask[p]) + padded_target_emb[p][k] * (1 - B2I(mask[p]))])])

\* jnp.concatenate((x_emb, metadata_emb), axis=-1) with metadata_emb
\* repeated on every row.
ConcatMetadata(x_emb, metadata_emb) ==
  Tensor([p \in 1..Len(x_emb) |-> x_emb[p] \o metadata_emb])

\* The flags infer hands to __call__: deterministic=True, rng left None.
InferDeterministic == TRUE
InferRng == None

\* PopulateX that embeds x_padded on every call.
PopulateX_Always(h, ref, x_padded) == Replace(h, ref, "x_emb", embed(x_padded))

\* Lines 216-218: the x-embedding of the cache, computed when absent.
PopulateX(h, ref, x_padded) ==
  IF h[ref].x_emb = None THEN Replace(h, ref, "x_emb", embed(x_padded))
  ELSE [heap |-> h, ref |-> ref]

\* Lines 231-232: the metadata embedding of the cache, computed when absent.
PopulateMetadata(h, ref, metadata) ==
  IF h[ref].metadata_emb = None THEN Replace(h, ref, "metadata_emb", Embedder(metadata))
  ELSE [heap |-> h, ref |-> ref]

\* infer, as a function of the heap, the cache reference and the arguments.
\* jax rejects an update larger than its operand (Q > L) when tracing.
InferResult(c, h, ref, x_padded, y_padded, x_targ, metadata, mask, ambient) ==
  LET s1 == PopulateX(h, ref, x_padded)
      x_pad_emb == s1.heap[s1.ref].x_emb
      x_targ_emb == embed(x_targ)
      target_index == TargetIndex(mask)
      zeros == ZerosLike(x_pad_emb)
      fits == Len(x_targ_emb) <= Len(zeros)
      padded_target_emb ==
        IF fits THEN DynamicUpdateSlice(zeros, x_targ_emb, target_index) ELSE zeros
      x_emb == Combine(x_pad_emb, padded_target_emb, mask)
      s2 == IF c.use_metadata THEN PopulateMetadata(s1.heap, s1.ref, metadata) ELSE s1
      x_in == IF c.use_metadata
              THEN ConcatMetadata(x_emb, s2.heap[s2.ref].metadata_emb)
              ELSE x_emb
      out == Call(c, x_in, y_padded, mask, InferDeterministic, InferRng, ambient)
  IN  IF ~fits
      THEN [error |-> "shape", heap |-> h, cache |-> ref, target_index |-> target_index,
            write_start |-> 0, x_pad_emb |-> x_pad_emb, padded_target_emb |-> zeros,
            x_emb |-> zeros, mean |-> <<>>, std |-> <<>>, raw_std |-> <<>>,
            layer_masks |-> <<>>]
      ELSE [error |-> "none", heap |-> s2.heap, cache |-> s2.ref,
            target_index |-> target_index,
            write_start |-> ClampStart(target_index, Len(zeros), Len(x_targ_emb)),
            x_pad_emb |-> x_pad_emb, padded_target_emb |-> padded_target_emb,
            x_emb |-> x_emb, mean |-> out.mean, std |-> out.std,
            raw_std |-> out.raw_std, layer_masks |-> out.layer_masks]


-----------------------------------------------------------------------------
(* The state machine.                                                      *)
(*   cfg     the module's construction attributes                          *)
(*   heap    the EmbeddingCache objects built so far                       *)
(*   held    the references the caller holds (the first cache and every    *)
(*           cache infer returned)                                         *)
(*   origin  history: for each cache object, the x_padded and the metadata *)
(*           of the call that found the field absent and filled it         *)
(*   last    the arguments and the results of the last call                *)
(*   ncalls  the number of calls made                                      *)

NumLayers == 2

Configs == [use_metadata : BOOLEAN, dropout : DropoutRates, num_layers : {NumLayers}]

NoCall == [op |-> "none"]

NoOrigin == [x |-> None, m |-> None]

Init ==
  /\ cfg \in Configs
  /\ heap = <<EmbeddingCache>>
  /\ held = {1}
  /\ origin = <<NoOrigin>>
  /\ last = NoCall
  /\ ncalls = 0

\* The history of the objects a call has built: a field's origin is this
\* call's argument when the cache passed in had the field absent.
OriginAfter(h, ref, r, x_padded, metadata) ==
  LET xo == IF h[ref].x_emb = None THEN x_padded ELSE origin[ref].x
      mo == IF cfg.use_metadata /\ h[ref].metadata_emb = None
            THEN <<metadata>> ELSE origin[ref].m
  IN  Tensor([q \in 1..Len(r.heap) |->
         IF q <= Len(h) THEN origin[q]
         ELSE [x |-> xo, m |-> IF q = r.cache THEN mo ELSE origin[ref].m]])

\* One infer call of the caller: any cache it holds, any arguments.
Infer ==
  /\ last = NoCall
  /\ ncalls < MaxCalls
  /\ \E ref \in held, x_padded \in XSeqs, y_padded \in YSeqs, x_targ \in TargSeqs,
        metadata \in Tokens, mask \in Masks, ambient \in Rngs :
       \E r \in {InferResult(cfg, heap, ref, x_padded, y_padded, x_targ, metadata,
                             mask, ambient)} :
           /\ heap' = r.heap
           /\ held' = IF r.error = "none" THEN held \cup {r.cache} ELSE held
           /\ origin' = OriginAfter(heap, ref, r, x_padded, metadata)
           /\ last' = [op |-> "infer", x_padded |-> x_padded, y_padded |-> y_padded,
                       x_targ |-> x_targ, metadata |-> metadata, mask |-> mask,
                       cache_in |-> ref, cache_out |-> r.cache, error |-> r.error,
                       deterministic |-> InferDeterministic, rng |-> InferRng,
                       target_index |-> r.target_index, write_start |-> r.write_start,
                       x_pad_emb |-> r.x_pad_emb,
                       padded_target_emb |-> r.padded_target_emb, x_emb |-> r.x_emb,
                       mean |-> r.mean, std |-> r.std, raw_std |-> r.raw_std,
                       layer_masks |-> r.layer_masks]
  /\ ncalls' = ncalls + 1
  /\ UNCHANGED cfg

\* fit: embed x, attach the metadata embedding to every row when
\* use_metadata, then the forward pass.
FitInput(c, x, metadata) ==
  IF c.use_metadata THEN ConcatMetadata(embed(x), Embedder(metadata)) ELSE embed(x)

FitResult(c, x, y, metadata, mask, deterministic, rng, ambient) ==
  Call(c, FitInput(c, x, metadata), y, mask, deterministic, rng, ambient)

\* The x_emb a caller hands to __call__: rows of the width x_proj was built
\* for.
XEmbs(c) == {FitInput(c, x, m) : x \in XSeqs, m \in Tokens}

RngArgs == {None} \cup {<<k>> : k \in Rngs}

\* A direct call of the forward pass on a constructed model.
CallOp ==
  /\ last = NoCall
  /\ ncalls = 0
  /\ \E x_emb \in XEmbs(cfg), y \in YSeqs, mask \in Masks, deterministic \in BOOLEAN,
        rng \in RngArgs, ambient \in Rngs :
       \E r \in {Call(cfg, x_emb, y, mask, deterministic, rng, ambient)} :
           last' = [op |-> "call", x_emb |-> x_emb, y |-> y, mask |-> mask,
                    deterministic |-> deterministic, rng |-> rng,
                    ambient |-> ambient, mean |-> r.mean, std |-> r.std, raw_std |-> r.raw_std,
                    layer_masks |-> r.layer_masks]
  /\ ncalls' = ncalls + 1
  /\ UNCHANGED <<cfg, heap, held, origin>>

\* A fit call on a constructed model.
Fit ==
  /\ last = NoCall
  /\ ncalls = 0
  /\ \E x \in XSeqs, y \in YSeqs, metadata \in Tokens, mask \in Masks,
        deterministic \in BOOLEAN, rng \in RngArgs, ambient \in Rngs :
       \E r \in {FitResult(cfg, x, y, metadata, mask, deterministic, rng, ambient)} :
           last' = [op |-> "fit", x_emb |-> FitInput(cfg, x, metadata), y |-> y,
                    mask |-> mask, deterministic |-> deterministic, rng |-> rng,
                    ambient |-> ambient, mean |-> r.mean, std |-> r.std, raw_std |-> r.raw_std,
                    layer_masks |-> r.layer_masks]
  /\ ncalls' = ncalls + 1
  /\ UNCHANGED <<cfg, heap, held, origin>>

\* The caller takes the results of the call that returned (it keeps the
\* cache it was handed back, in held) and is ready for its next call.
Consume ==
  /\ last # NoCall
  /\ last' = NoCall
  /\ UNCHANGED <<cfg, heap, held, origin, ncalls>>

\* An inference session: a sequence of infer calls.
Next == Infer \/ Consume

Spec == Init /\ [][Next]_vars

\* One operation on a freshly constructed model.
InferOnce == ncalls = 0 /\ Infer

NextOne == CallOp \/ Fit \/ InferOnce

SpecOne == Init /\ [][NextOne]_vars

-----------------------------------------------------------------------------
(* Properties of the forward pass, checked under SpecOne.                  *)

Forwarded == last.op \in {"call", "fit"} \/ (last.op = "infer" /\ last.error = "none")

\* C1: the attention mask handed to every encoder layer has entry (row i,
\* column j) true iff mask[j] is true, for all i and j, and each of the
\* num_layers blocks is handed that same mask.
C1_AttentionMaskColumns ==
  Forwarded =>
    /\ Len(last.layer_masks) = cfg.num_layers
    /\ \A l \in 1..Len(last.layer_masks) : \A i, j \in Positions :
         last.layer_masks[l][i][j] = last.mask[j]

\* C1 witness: a forward pass on a mask with a context and a target position.
C1_Witness ==
  /\ last.op = "call"
  /\ last.mask = <<TRUE, FALSE>>
  /\ Len(last.layer_masks) > 1

\* C2: the returned (mean, std) do not depend on y at the positions where
\* the mask is False: any y2 that agrees with y where the mask is True gives
\* the same result.  (Violated: y * mask leaves a NaN at a target position.)
C2_TargetYHidden ==
  last.op \in {"call", "fit"} =>
    \A y2 \in YSeqs :
      (\A i \in Positions : last.mask[i] => y2[i] = last.y[i]) =>
        LET r == Call(cfg, last.x_emb, y2, last.mask, last.deterministic, last.rng,
                      last.ambient)
        IN  r.mean = last.mean /\ r.std = last.std

\* C7 as stated: wherever the raw output of the head is finite, std is
\* strictly greater than EPS.
C7_StdAboveEps ==
  Forwarded =>
    \A i \in 1..Len(last.std) : ~IsNaN(last.raw_std[i]) => last.std[i] > EPS

\* C7 as amended: wherever the raw output of the head is finite, std is at
\* least EPS, hence strictly positive (it equals EPS where the transformed
\* value rounds to zero).
C7_StdAtLeastEps ==
  Forwarded =>
    \A i \in 1..Len(last.std) :
      ~IsNaN(last.raw_std[i]) => last.std[i] >= EPS /\ last.std[i] > 0

\* C7 witness: a forward pass with one std on the floor and one above it.
C7_Witness ==
  /\ last.op = "call"
  /\ \A i \in Positions : ~IsNaN(last.raw_std[i])
  /\ \E i \in Positions : last.std[i] = EPS /\ std_transform_fn(last.raw_std[i]) = 0
  /\ \E i \in Positions : last.std[i] > EPS

\* C8: with deterministic=True the result of __call__ is the same for every
\* rng supplied (and every state of the module's dropout stream); infer runs
\* the forward pass with deterministic=True and no rng, so its result is the
\* same whatever the dropout stream holds.
C8_Deterministic ==
  /\ (last.op \in {"call", "fit"} /\ last.deterministic) =>
       \A rng2 \in RngArgs, ambient2 \in Rngs :
         LET r == Call(cfg, last.x_emb, last.y, last.mask, TRUE, rng2, ambient2)
         IN  r.mean = last.mean /\ r.std = last.std
  /\ (last.op = "infer" /\ last.error = "none") =>
       /\ last.deterministic /\ last.rng = None
       /\ \A ambient2 \in Rngs :
            LET r == InferResult(cfg, <<EmbeddingCache>>, 1, last.x_padded,
                                 last.y_padded, last.x_targ, last.metadata, last.mask,
                                 ambient2)
            IN  r.mean = last.mean /\ r.std = last.std

\* C8 witness: a deterministic call on a model with dropout, with an rng.
C8_Witness ==
  /\ last.op = "call"
  /\ last.deterministic
  /\ cfg.dropout > 0
  /\ last.rng # None

-----------------------------------------------------------------------------
(* Properties of infer and of the cache, checked under Spec.               *)

Inferred == last.op = "infer" /\ last.error = "none"

\* The number of target sequences of the last infer call.
LastQ == Len(last.x_targ)

\* The mask's True values are exactly its first count positions.
IsPrefixMask(mask, count) == \A p \in Positions : mask[p] <=> p <= count

\* C3: the cache is write-once: a stored x_emb (metadata_emb) is the
\* embedding of the x_padded (metadata) of the call that found it absent and
\* filled it, whatever later calls were given.
C3_CacheWriteOnce ==
  \A r \in DOMAIN heap :
    /\ heap[r].x_emb # None =>
         origin[r].x # None /\ heap[r].x_emb = embed(origin[r].x)
    /\ heap[r].metadata_emb # None =>
         origin[r].m # None /\ heap[r].metadata_emb = Embedder(origin[r].m[1])

\* C3 witness: a call given a populated cache and another x_padded and
\* another metadata than the ones the cache was filled from.
C3_Witness ==
  /\ Inferred
  /\ cfg.use_metadata
  /\ last.cache_out = last.cache_in
  /\ heap[last.cache_in].x_emb # None
  /\ heap[last.cache_in].metadata_emb # None
  /\ origin[last.cache_in].x # last.x_padded
  /\ origin[last.cache_in].m # <<last.metadata>>

\* C4: with a cache that is empty or was filled from the same x_padded and
\* metadata, infer uses the same context embedding and returns the same
\* (mean, std) as with an empty cache; and the cache it returns is a function
\* of the cache passed in, x_padded and metadata alone (nothing of x_targ,
\* y_padded or mask is stored).
C4_CacheIdempotent ==
  Inferred =>
    LET cin == heap[last.cache_in]
        fresh == InferResult(cfg, <<EmbeddingCache>>, 1, last.x_padded, last.y_padded,
                             last.x_targ, last.metadata, last.mask, 0)
    IN  /\ ( /\ cin.x_emb \in {None, embed(last.x_padded)}
             /\ cin.metadata_emb \in {None, Embedder(last.metadata)} )
           => /\ last.x_pad_emb = fresh.x_pad_emb
              /\ last.mean = fresh.mean
              /\ last.std = fresh.std
        /\ heap[last.cache_out] =
             [x_emb |-> IF cin.x_emb = None THEN embed(last.x_padded) ELSE cin.x_emb,
              metadata_emb |-> IF cfg.use_metadata /\ cin.metadata_emb = None
                               THEN Embedder(last.metadata) ELSE cin.metadata_emb]

\* C4 witness: a second call, given the cache the first one returned, with
\* the x_padded and the metadata that cache was filled from.
C4_Witness ==
  /\ Inferred
  /\ ncalls = 2
  /\ cfg.use_metadata
  /\ last.cache_in # 1
  /\ heap[last.cache_in].x_emb = embed(last.x_padded)
  /\ heap[last.cache_in].metadata_emb = Embedder(last.metadata)

\* C5: for a mask whose True values are exactly the first count positions
\* and count + Q <= L: target_index = count, and the assembled embedding is
\* the cached context embedding at p <= count, target k at count + k, and
\* zero after count + Q.
C5_OverlayPlacement ==
  Inferred =>
    \A count \in 0..MaxLen :
      (IsPrefixMask(last.mask, count) /\ count + LastQ <= MaxLen) =>
        /\ last.target_index = count
        /\ \A p \in Positions :
             last.x_emb[p] =
               IF p <= count THEN heap[last.cache_out].x_emb[p]
               ELSE IF p <= count + LastQ THEN Embedder(last.x_targ[p - count])
               ELSE <<0>>

\* C5 witness: one context point and one target, on a cache filled earlier.
C5_Witness ==
  /\ Inferred
  /\ last.mask = <<TRUE, FALSE>>
  /\ LastQ = 1
  /\ last.cache_in # 1
  /\ heap[last.cache_in].x_emb # embed(last.x_padded)
  /\ last.x_emb = <<heap[last.cache_in].x_emb[1], Embedder(last.x_targ[1])>>

C9_ContextNotOverwritten ==
  Inferred =>
    \A p \in Positions :
      /\ last.mask[p] => last.x_emb[p] = heap[last.cache_out].x_emb[p]
      /\ ~last.mask[p] =>
           /\ last.x_emb[p] = last.padded_target_emb[p]
           /\ last.x_emb[p] \in {<<0>>} \cup {Embedder(last.x_targ[k]) : k \in 1..LastQ}

\* C9 witness: a mask that is no prefix, over capacity (target_index + Q > L).
C9_Witness ==
  /\ Inferred
  /\ last.mask = <<FALSE, TRUE>>
  /\ last.target_index + LastQ > MaxLen
  /\ last.padded_target_emb[2] # <<0>>

\* C10: when target_index + Q > L with Q <= L, infer signals no error and
\* returns mean and std of length L and a cache, and the whole target block
\* was written inside the L positions of the buffer.
C10_OverCapacityUnchecked ==
  (last.op = "infer" /\ last.target_index + LastQ > MaxLen /\ LastQ <= MaxLen) =>
    /\ last.error = "none"
    /\ Len(last.mean) = MaxLen /\ Len(last.std) = MaxLen
    /\ last.cache_out \in DOMAIN heap
    /\ Len(last.padded_target_emb) = MaxLen
    /\ 0 <= last.write_start /\ last.write_start + LastQ <= MaxLen
    /\ \A k \in 1..LastQ :
         last.padded_target_emb[last.write_start + k] = Embedder(last.x_targ[k])

\* C10 witness: a full context (target_index = L) and one target.
C10_Witness ==
  /\ Inferred
  /\ last.target_index = MaxLen
  /\ LastQ = 1
  /\ last.write_start < last.target_index

=============================================================================
